---- MODULE Spec2Model ----
(***************************************************************************)
(* Bulk A-record resolution of oneforall/common/resolve.py:                *)
(* run_resolve -> bulk_resolve -> filter_subdomain, aio_resolve (manager   *)
(* queue, progress monitor thread, aiomultiprocess pool of workers running *)
(* aio_query), convert_results, update_data.                               *)
(***************************************************************************)
EXTENDS Integers, Sequences, FiniteSets, TLC

\* ---------------------------------------------------------------- bounds
MaxRecords == 2
MaxProcessNum == 2
MaxCoroutineNum == 2

Hosts == {"a.example.com", "b.example.com"}

\* ------------------------------------------------------- Python values
\* A str is a sequence of tokens; the brackets and quotes that str() adds
\* are tokens of their own, so that slicing acts on them.
PyNone == [t |-> "None"]
PyStr(s) == [t |-> "str", s |-> s]
PyInt(n) == [t |-> "int", n |-> n]

\* bool(v): None, '' and 0 are false
Truthy(v) ==
    CASE v.t = "None" -> FALSE
      [] v.t = "str" -> Len(v.s) > 0
      [] v.t = "int" -> v.n # 0

RECURSIVE JoinRepr(_)
JoinRepr(items) ==
    IF items = <<>> THEN <<>>
    ELSE IF Len(items) = 1 THEN <<"'", items[1], "'">>
    ELSE <<"'", items[1], "'", ", ">> \o JoinRepr(Tail(items))

\* str(list)
StrList(items) == <<"[">> \o JoinRepr(items) \o <<"]">>

\* str(tuple): a one-element tuple prints a trailing comma
StrTuple(items) ==
    <<"(">> \o JoinRepr(items) \o (IF Len(items) = 1 THEN <<",">> ELSE <<>>) \o <<")">>

\* s[1:-1]
Slice1m1(s) == IF Len(s) < 2 THEN <<>> ELSE SubSeq(s, 2, Len(s) - 1)

\* dict operations
DictGet(d, k) == IF k \in DOMAIN d THEN d[k] ELSE PyNone
DictSet(d, k, v) == [x \in (DOMAIN d) \cup {k} |-> IF x = k THEN v ELSE d[x]]

\* ------------------------------------------------------ the resolver
\* What socket.gethostbyname_ex, awaited through run_in_executor, can do:
\* return (hostname, aliaslist, ipaddrlist), raise an Exception subclass
\* (socket.gaierror, socket.timeout), or have a BaseException that is no
\* Exception raised at the await (asyncio.CancelledError, SystemExit).
Lookups ==
    { [raised |-> "none", ipaddrlist |-> <<"1.2.3.4", "5.6.7.8">>, args |-> <<>>],
      [raised |-> "Exception", ipaddrlist |-> <<>>, args |-> <<"timed out">>],
      [raised |-> "BaseException", ipaddrlist |-> <<>>, args |-> <<>>] }

NoAnswer == [kind |-> "none", ipaddrlist |-> <<>>, args |-> <<>>]

\* mutant: except Exception as e
ExceptException(cls) == cls = "Exception"

\* except BaseException as e: every class is caught
ExceptClause(cls) == cls \in {"Exception", "BaseException"}

\* aiodns_query_a(hostname): (hostname, answer), or the fault it lets through
aiodns_query_a(hostname, lookup) ==
    IF lookup.raised = "none"
    THEN [fault |-> FALSE, hostname |-> hostname,
          answer |-> [kind |-> "tuple", ipaddrlist |-> lookup.ipaddrlist, args |-> <<>>]]
    ELSE IF ExceptClause(lookup.raised)
    THEN [fault |-> FALSE, hostname |-> hostname,
          answer |-> [kind |-> lookup.raised, ipaddrlist |-> <<>>, args |-> lookup.args]]
    ELSE [fault |-> TRUE, hostname |-> hostname, answer |-> NoAnswer]

\* ----------------------------------------------------- convert_results
IsTuple(answer) == answer.kind = "tuple"
IsException(answer) == answer.kind = "Exception"

\* the value_dict built for one answer
ValueDict(answer) ==
    LET value_dict == [ips |-> PyNone, reason |-> PyNone, valid |-> PyNone]
    IN  IF IsTuple(answer)
        THEN [value_dict EXCEPT !.ips = PyStr(Slice1m1(StrList(answer.ipaddrlist)))]
        ELSE IF IsException(answer)
        THEN [value_dict EXCEPT !.reason = PyStr(StrTuple(answer.args)),
                                !.valid = PyInt(0)]
        ELSE [value_dict EXCEPT !.valid = PyInt(0)]

\* mutant: one value_dict, made before the loop, is stored under every
\* hostname, so every entry shows what the last result wrote
ConvertLoopShared(result_list, result_dict) ==
    IF result_list = <<>> THEN result_dict
    ELSE [h \in (DOMAIN result_dict) \cup {result_list[i].hostname : i \in DOMAIN result_list}
             |-> ValueDict(result_list[Len(result_list)].answer)]

\* mutant: the else branch stores no entry
RECURSIVE ConvertLoopNoElse(_, _)
ConvertLoopNoElse(result_list, result_dict) ==
    IF result_list = <<>> THEN result_dict
    ELSE LET result == Head(result_list)
         IN  ConvertLoopNoElse(Tail(result_list),
                 IF result.answer.kind \in {"tuple", "Exception"}
                 THEN [x \in (DOMAIN result_dict) \cup {result.hostname} |->
                          IF x = result.hostname THEN ValueDict(result.answer)
                          ELSE result_dict[x]]
                 ELSE result_dict)

RECURSIVE ConvertLoop(_, _)
ConvertLoop(result_list, result_dict) ==
    IF result_list = <<>> THEN result_dict
    ELSE LET result == Head(result_list)
         IN  ConvertLoop(Tail(result_list),
                         DictSet(result_dict, result.hostname, ValueDict(result.answer)))

convert_results(result_list) == ConvertLoop(result_list, <<>>)

\* ---------------------------------------------------- filter_subdomain
\* mutant: if data.get('ips') is None
FilterCondIsNone(data) == data.ips = PyNone

\* if not data.get('ips')
FilterCond(data) == ~Truthy(data.ips)

RECURSIVE FilterLoop(_, _)
FilterLoop(data_list, subdomains) ==
    IF data_list = <<>> THEN subdomains
    ELSE LET data == Head(data_list)
         IN  FilterLoop(Tail(data_list),
                        IF FilterCond(data) THEN Append(subdomains, data.subdomain)
                        ELSE subdomains)

filter_subdomain(data_list) == FilterLoop(data_list, <<>>)

\* --------------------------------------------------------- update_data
\* mutant: every record is updated
UpdateCondAlways(data) == TRUE

\* if not data.get('ips')
UpdateCond(data) == ~Truthy(data.ips)

\* mutant: the reason is added to the one the record has
DictUpdateAppend(data, value_dict) ==
    [data EXCEPT !.ips = value_dict.ips,
                 !.reason = IF data.reason.t = "str" /\ value_dict.reason.t = "str"
                            THEN PyStr(data.reason.s \o value_dict.reason.s)
                            ELSE value_dict.reason,
                 !.valid = value_dict.valid]

\* data.update(value_dict)
DictUpdate(data, value_dict) ==
    [data EXCEPT !.ips = value_dict.ips,
                 !.reason = value_dict.reason,
                 !.valid = value_dict.valid]

\* The loop from position index on. data.update(None) raises TypeError and
\* leaves the records before it as the loop has written them.
RECURSIVE UpdateLoop(_, _, _)
UpdateLoop(data_list, results_dict, index) ==
    IF index > Len(data_list) THEN [data_list |-> data_list, raised |-> "none"]
    ELSE LET data == data_list[index]
             value_dict == DictGet(results_dict, data.subdomain)
         IN  IF ~UpdateCond(data) THEN UpdateLoop(data_list, results_dict, index + 1)
             ELSE IF value_dict = PyNone
             THEN [data_list |-> data_list, raised |-> "TypeError"]
             ELSE UpdateLoop([data_list EXCEPT ![index] = DictUpdate(data, value_dict)],
                             results_dict, index + 1)

update_data(data_list, results_dict) == UpdateLoop(data_list, results_dict, 1)

\* ------------------------------------------------------------- state
VARIABLES
    pc,               \* position of run_resolve / bulk_resolve / aio_resolve
    data0,            \* the record list as the caller passed it
    data_list,        \* the caller's record list
    query_subdomains, \* bulk_resolve: filter_subdomain's result
    process_num,      \* config.brute_process_num
    coroutine_num,    \* config.brute_coroutine_num
    pr_queue,         \* the manager queue of progress marks
    total,            \* resolve_progress: total
    mon_pc,           \* resolve_progress: position of the monitor thread
    done,             \* resolve_progress: the last qsize() read
    workers,          \* worker processes the pool has started
    task,             \* pool.map: one task per submitted hostname
    results,          \* aio_resolve: what pool.map returned
    results_dict,     \* bulk_resolve: convert_results' result
    err,              \* the error propagating out of the call, if any
    merged            \* the record list after the first update_data

vars == <<pc, data0, data_list, query_subdomains, process_num, coroutine_num,
          pr_queue, total, mon_pc, done, workers, task, results, results_dict,
          err, merged>>

\* A record as the collection modules hand it over: ips filled in or not,
\* nothing known about reason and valid yet.
InputRecords ==
    [subdomain : Hosts, ips : {PyNone, PyStr(<<"'", "9.9.9.9", "'">>)},
     reason : {PyNone}, valid : {PyNone}]

RecordLists(Recs) == UNION {[1..n -> Recs] : n \in 0..MaxRecords}

Init ==
    /\ pc = "filter"
    /\ data0 \in RecordLists(InputRecords)
    /\ data_list = data0
    /\ query_subdomains = <<>>
    /\ process_num \in 1..MaxProcessNum
    /\ coroutine_num \in 1..MaxCoroutineNum
    /\ pr_queue = <<>>
    /\ total = 0
    /\ mon_pc = "none"
    /\ done = 0
    /\ workers = 0
    /\ task = <<>>
    /\ results = <<>>
    /\ results_dict = <<>>
    /\ err = "none"
    /\ merged = <<>>

\* ------------------------------------------------------ bulk_resolve
\* query_subdomains = filter_subdomain(data_list)
Filter ==
    /\ pc = "filter"
    /\ query_subdomains' = filter_subdomain(data_list)
    /\ pc' = "aio_resolve"
    /\ UNCHANGED <<data0, data_list, process_num, coroutine_num, pr_queue, total,
                   mon_pc, done, workers, task, results, results_dict, err, merged>>

\* ------------------------------------------------------- aio_resolve
\* m = Manager(); pr_queue = m.Queue();
\* loop.run_in_executor(None, resolve_progress, pr_queue, len(subdomain_list))
StartMonitor ==
    /\ pc = "aio_resolve"
    /\ pr_queue' = <<>>
    /\ total' = Len(query_subdomains)
    /\ mon_pc' = "poll"
    /\ pc' = "pool"
    /\ UNCHANGED <<data0, data_list, query_subdomains, process_num, coroutine_num,
                   done, workers, task, results, results_dict, err, merged>>

\* async with aiomp.Pool(processes=process_num, childconcurrency=coroutine_num):
\* the pool starts its worker processes when it is created
PoolCreate ==
    /\ pc = "pool"
    /\ workers' = process_num
    /\ pc' = "map"
    /\ UNCHANGED <<data0, data_list, query_subdomains, process_num, coroutine_num,
                   pr_queue, total, mon_pc, done, task, results, results_dict,
                   err, merged>>

\* pool.map(wrapped_query, subdomain_list): one queued task per hostname
PoolMap ==
    /\ pc = "map"
    /\ task' = [i \in 1..Len(query_subdomains) |->
                   [st |-> "queued", w |-> 0, hostname |-> query_subdomains[i],
                    answer |-> NoAnswer]]
    /\ pc' = "await"
    /\ UNCHANGED <<data0, data_list, query_subdomains, process_num, coroutine_num,
                   pr_queue, total, mon_pc, done, workers, results, results_dict,
                   err, merged>>

\* mutant: childconcurrency=process_num (the two arguments exchanged)
childconcurrencyExchanged == process_num

\* aiomp.Pool(..., childconcurrency=coroutine_num): the tasks one worker
\* may hold at a time
childconcurrency == coroutine_num

\* tasks a worker holds: started and not yet returned
InFlight(w) == {i \in DOMAIN task : task[i].w = w /\ task[i].st \in {"running", "put"}}

Queued == {i \in DOMAIN task : task[i].st = "queued"}

\* a worker with a free slot takes the next queued task and starts aio_query
WorkerTake(w) ==
    /\ pc = "await"
    /\ w \in 1..workers
    /\ Cardinality(InFlight(w)) < childconcurrency
    /\ Queued # {}
    /\ LET i == CHOOSE j \in Queued : \A k \in Queued : j <= k
       IN  task' = [task EXCEPT ![i].st = "running", ![i].w = w]
    /\ UNCHANGED <<pc, data0, data_list, query_subdomains, process_num,
                   coroutine_num, pr_queue, total, mon_pc, done, workers, results,
                   results_dict, err, merged>>

\* mutant: a put that writes over the mark of another worker
PrQueuePutLost(q) == <<1>>

\* mutant: the mark is put twice
PrQueuePutTwice(q) == Append(Append(q, 1), 1)

\* pr_queue.put(1): the manager serialises the puts of all workers
PrQueuePut(q) == Append(q, 1)

\* aio_query: results = await aiodns_query_a(hostname); pr_queue.put(1)
QueryDone(i, lookup) ==
    /\ i \in DOMAIN task
    /\ task[i].st = "running"
    /\ LET r == aiodns_query_a(task[i].hostname, lookup)
       IN  IF r.fault
           THEN /\ task' = [task EXCEPT ![i].st = "fault"]
                /\ UNCHANGED pr_queue
           ELSE /\ task' = [task EXCEPT ![i].st = "put", ![i].answer = r.answer]
                /\ pr_queue' = PrQueuePut(pr_queue)
    /\ UNCHANGED <<pc, data0, data_list, query_subdomains, process_num,
                   coroutine_num, total, mon_pc, done, workers, results,
                   results_dict, err, merged>>

\* aio_query: return results (the outcome reaches the pool)
QueryReturn(i) ==
    /\ i \in DOMAIN task
    /\ task[i].st = "put"
    /\ task' = [task EXCEPT ![i].st = "returned", ![i].w = 0]
    /\ UNCHANGED <<pc, data0, data_list, query_subdomains, process_num,
                   coroutine_num, pr_queue, total, mon_pc, done, workers, results,
                   results_dict, err, merged>>

\* mutant: the await ends once every task has been started
MapCompleteStarted == Queued = {}

\* mutant: the await ends with the first task that has ended
MapCompleteFirst == \E i \in DOMAIN task : task[i].st \in {"returned", "fault"}

\* pool.map's await is over when every task has ended
MapComplete == \A i \in DOMAIN task : task[i].st \in {"returned", "fault"}

\* results = await pool.map(...); return results (leaving the pool's block
\* stops the workers). A fault a query let through is raised here.
PoolMapReturn ==
    /\ pc = "await"
    /\ MapComplete
    /\ IF \E i \in DOMAIN task : task[i].st = "fault"
       THEN /\ pc' = "failed"
            /\ err' = "fault"
            /\ UNCHANGED results
       ELSE /\ results' = [i \in DOMAIN task |->
                              [hostname |-> task[i].hostname, answer |-> task[i].answer]]
            /\ pc' = "convert"
            /\ UNCHANGED err
    /\ workers' = 0
    /\ UNCHANGED <<data0, data_list, query_subdomains, process_num, coroutine_num,
                   pr_queue, total, mon_pc, done, task, results_dict, merged>>

\* results_dict = convert_results(results)
Convert ==
    /\ pc = "convert"
    /\ results_dict' = convert_results(results)
    /\ pc' = "update"
    /\ UNCHANGED <<data0, data_list, query_subdomains, process_num, coroutine_num,
                   pr_queue, total, mon_pc, done, workers, task, results, err, merged>>

\* data_list = update_data(data_list, results_dict); return data_list
Update ==
    /\ pc = "update"
    /\ LET u == update_data(data_list, results_dict)
       IN  /\ data_list' = u.data_list
           /\ err' = u.raised
           /\ pc' = IF u.raised = "none" THEN "done" ELSE "failed"
    /\ UNCHANGED <<data0, query_subdomains, process_num, coroutine_num, pr_queue,
                   total, mon_pc, done, workers, task, results, results_dict, merged>>

\* -------------------------------------------------- resolve_progress
\* pr_queue.qsize()
qsize(q) == Len(q)

\* mutant: the loop breaks one short of total
MonitorBreakEarly(d, t) == d + 1 >= t

\* if done == total: break
MonitorBreak(d, t) == d = t

\* One turn of the loop: done = pr_queue.qsize(); bar.n = done; bar.update();
\* if done == total: break (then bar.close()). The comparison is local to the
\* thread, so the turn is one step.
MonitorPoll ==
    /\ mon_pc = "poll"
    /\ done' = qsize(pr_queue)
    /\ mon_pc' = IF MonitorBreak(done', total) THEN "closed" ELSE "poll"
    /\ UNCHANGED <<pc, data0, data_list, query_subdomains, process_num,
                   coroutine_num, pr_queue, total, workers, task, results,
                   results_dict, err, merged>>

\* ------------------------------------------------------ specification
MainStep == Filter \/ StartMonitor \/ PoolCreate \/ PoolMap \/ PoolMapReturn
               \/ Convert \/ Update

WorkerStep ==
    \/ \E w \in 1..MaxProcessNum : WorkerTake(w)
    \/ \E i \in 1..MaxRecords, lookup \in Lookups : QueryDone(i, lookup)
    \/ \E i \in 1..MaxRecords : QueryReturn(i)

MonitorStep == MonitorPoll

Next == MainStep \/ WorkerStep \/ MonitorStep

Spec == Init /\ [][Next]_vars

\* The event loop runs the coroutine, the operating system runs every worker
\* process and the monitor thread, and every lookup ends (it returns, fails or
\* times out).
FairSpec == Spec /\ WF_vars(MainStep) /\ WF_vars(WorkerStep) /\ WF_vars(MonitorStep)

\* ------------------------------------------- worker start-up failure
\* mutant: the error is swallowed and aio_resolve goes on without workers
PoolCreateFailSwallowed ==
    /\ pc = "pool"
    /\ workers' = 0
    /\ pc' = "map"
    /\ UNCHANGED <<data0, data_list, query_subdomains, process_num, coroutine_num,
                   pr_queue, total, mon_pc, done, task, results, results_dict,
                   err, merged>>

\* aiomp.Pool(...) raises (a worker process cannot be started): the error
\* leaves aio_resolve, bulk_resolve and run_resolve; lines 166-167 and
\* 183-186 are not run. The monitor submitted at line 162 is left as it is.
PoolCreateFail ==
    /\ pc = "pool"
    /\ workers' = 0
    /\ err' = "PoolStart"
    /\ pc' = "failed"
    /\ UNCHANGED <<data0, data_list, query_subdomains, process_num, coroutine_num,
                   pr_queue, total, mon_pc, done, task, results, results_dict,
                   merged>>

NextStart == Next \/ PoolCreateFail

\* the batch in an environment where starting the workers may fail
SpecStart == Init /\ [][NextStart]_vars

\* ------------------------------------- the aggregator's functions alone
\* filter_subdomain, convert_results and update_data applied to any record
\* list and any result list, as a caller of the module's functions can.
Answers == {aiodns_query_a(h, lookup).answer : h \in Hosts, lookup \in Lookups}

\* records as update_data can meet them: ips missing, empty or filled in
AggRecords ==
    [subdomain : Hosts, ips : {PyNone, PyStr(<<>>), PyStr(<<"'", "9.9.9.9", "'">>)},
     reason : {PyNone}, valid : {PyNone}]

ResultLists == UNION {[1..n -> [hostname : Hosts, answer : Answers]] : n \in 0..MaxRecords}

InitAgg ==
    /\ pc = "agg_filter"
    /\ data0 \in RecordLists(AggRecords)
    /\ data_list = data0
    /\ results \in ResultLists
    /\ query_subdomains = <<>>
    /\ process_num = 1
    /\ coroutine_num = 1
    /\ pr_queue = <<>>
    /\ total = 0
    /\ mon_pc = "none"
    /\ done = 0
    /\ workers = 0
    /\ task = <<>>
    /\ results_dict = <<>>
    /\ err = "none"
    /\ merged = <<>>

\* filter_subdomain(data_list)
AggFilter ==
    /\ pc = "agg_filter"
    /\ query_subdomains' = filter_subdomain(data_list)
    /\ pc' = "agg_convert"
    /\ UNCHANGED <<data0, data_list, process_num, coroutine_num, pr_queue, total,
                   mon_pc, done, workers, task, results, results_dict, err, merged>>

\* convert_results(results)
AggConvert ==
    /\ pc = "agg_convert"
    /\ results_dict' = convert_results(results)
    /\ pc' = "agg_update"
    /\ UNCHANGED <<data0, data_list, query_subdomains, process_num, coroutine_num,
                   pr_queue, total, mon_pc, done, workers, task, results, err, merged>>

\* update_data(data_list, results_dict)
AggUpdate ==
    /\ pc = "agg_update"
    /\ LET u == update_data(data_list, results_dict)
       IN  /\ data_list' = u.data_list
           /\ merged' = u.data_list
           /\ err' = u.raised
    /\ pc' = "agg_again"
    /\ UNCHANGED <<data0, query_subdomains, process_num, coroutine_num, pr_queue,
                   total, mon_pc, done, workers, task, results, results_dict>>

\* update_data(data_list, results_dict) once more, on the list as it is now
AggUpdateAgain ==
    /\ pc = "agg_again"
    /\ LET u == update_data(data_list, results_dict)
       IN  /\ data_list' = u.data_list
           /\ err' = u.raised
    /\ pc' = "agg_done"
    /\ UNCHANGED <<data0, query_subdomains, process_num, coroutine_num, pr_queue,
                   total, mon_pc, done, workers, task, results, results_dict, merged>>

NextAgg == AggFilter \/ AggConvert \/ AggUpdate \/ AggUpdateAgain

SpecAgg == InitAgg /\ [][NextAgg]_vars

\* ------------------------------------------------------------ claims
\* a record's addresses are populated: ips is a non-empty string
Populated(data) == data.ips.t = "str" /\ data.ips.s # <<>>

\* positions of the records whose addresses are not populated
PendingIdx(dl) == {i \in DOMAIN dl : ~Populated(dl[i])}

\* how many positions of sequence sq hold the hostname h
Count(sq, h) == Cardinality({i \in DOMAIN sq : sq[i].hostname = h})

\* aio_resolve has returned to bulk_resolve
Returned == pc \in {"convert", "update", "done"}

\* an answer that stands for a failed lookup
Failed(answer) == answer.kind \in {"Exception", "BaseException"}

\* C1: aio_resolve returns only after every submitted hostname has
\* completed, and what it returns holds exactly one outcome for each
\* submitted hostname: none dropped, none duplicated, none for a hostname
\* that was not submitted, under every interleaving of the workers and every
\* mix of successes and failures.
C1_OneOutcomePerHostname ==
    Returned =>
        /\ \A i \in DOMAIN task : task[i].st = "returned"
        /\ Len(results) = Len(query_subdomains)
        /\ \A i \in DOMAIN results : results[i].answer.kind # "none"
        /\ \A h \in Hosts :
              Count(results, h) = Cardinality({i \in DOMAIN query_subdomains :
                                                  query_subdomains[i] = h})

C1_Witness ==
    /\ pc = "done"
    /\ process_num = 2
    /\ Len(query_subdomains) = 2
    /\ query_subdomains[1] # query_subdomains[2]
    /\ Failed(results[1].answer)
    /\ ~Failed(results[2].answer)

\* C2: filter_subdomain returns exactly the names of the records whose ips
\* is not populated, one entry per such record, in the records' order, never
\* an entry for a populated record, and leaves the record list as it was.
C2_FilterSelectsPending ==
    pc = "agg_convert" =>
        /\ Len(query_subdomains) = Cardinality(PendingIdx(data0))
        /\ \A i \in PendingIdx(data0) :
              query_subdomains[Cardinality({j \in PendingIdx(data0) : j <= i})]
                  = data0[i].subdomain
        /\ data_list = data0

C2_Witness ==
    /\ pc = "agg_convert"
    /\ Len(data0) = 2
    /\ Populated(data0[1])
    /\ data0[2].ips = PyStr(<<>>)
    /\ query_subdomains = <<data0[2].subdomain>>

\* C3: every entry of the map convert_results builds has exactly one of
\* ips and reason set, never both and never neither, whatever the answer.
C3_ExactlyOneOfIpsReason ==
    \A h \in DOMAIN results_dict :
        (results_dict[h].ips # PyNone) # (results_dict[h].reason # PyNone)

\* C4: update_data called with a record that lacks ips and whose name is
\* no key of results_dict raises nothing and leaves the records untouched.
C4_MissingKeyIsNoOp ==
    (/\ pc = "agg_again"
     /\ \E i \in PendingIdx(data0) : data0[i].subdomain \notin DOMAIN results_dict)
    => /\ err = "none"
       /\ \A i \in PendingIdx(data0) :
             data0[i].subdomain \notin DOMAIN results_dict => data_list[i] = data0[i]

\* C5: update_data is idempotent: a second update_data with the same
\* results_dict leaves every field of every record as the first left it,
\* also for the records that received a failure and still have no ips.
C5_MergeIdempotent == pc = "agg_done" => data_list = merged

C5_Witness ==
    /\ pc = "agg_done"
    /\ err = "none"
    /\ \E i \in DOMAIN data0 :
          /\ data0[i].ips = PyNone
          /\ merged[i].ips = PyNone
          /\ merged[i].valid = PyInt(0)
          /\ merged[i].reason # PyNone

\* C6: a record whose ips is populated before the batch is never submitted
\* and keeps every field through the batch, also when another record of the
\* same hostname without ips is resolved in the same batch.
C6_PopulatedUntouched ==
    /\ \A i \in DOMAIN data0 : Populated(data0[i]) => data_list[i] = data0[i]
    /\ Len(query_subdomains) <= Cardinality(PendingIdx(data0))
    /\ Len(task) <= Cardinality(PendingIdx(data0))

C6_Witness ==
    /\ pc = "done"
    /\ \E i, j \in DOMAIN data0 :
          /\ Populated(data0[i])
          /\ ~Populated(data0[j])
          /\ data0[i].subdomain = data0[j].subdomain
          /\ data0[i].subdomain \in DOMAIN results_dict
          /\ data_list[j] # data0[j]

\* C7: the progress counter stays within 0..total, counts every completed
\* query once (no lost and no doubled increment under any interleaving of
\* the workers' puts), never decreases, equals total once every query has
\* completed, and total does not change once it is set.
C7_CounterInv ==
    /\ 0 <= Len(pr_queue)
    /\ Len(pr_queue) <= total
    /\ Len(pr_queue) = Cardinality({i \in DOMAIN task : task[i].st \in {"put", "returned"}})
    /\ ((pc = "await" /\ MapComplete) \/ Returned) => Len(pr_queue) = total

C7_ProgressCounter ==
    /\ []C7_CounterInv
    /\ [][/\ Len(pr_queue') >= Len(pr_queue)
          /\ (mon_pc # "none" => total' = total)]_vars

C7_Witness ==
    /\ Len(task) = 2
    /\ task[1].st = "put"
    /\ task[2].st = "put"
    /\ task[1].w # task[2].w
    /\ Len(pr_queue) = 2

\* C8: the monitor loop ends only on a read with done == total, reads the
\* counter no more once it has ended, and, the thread being scheduled, ends
\* once the counter has reached total.
C8_MonitorLoop ==
    /\ [](mon_pc = "closed" => done = total)
    /\ [][mon_pc = "closed" => (mon_pc' = "closed" /\ done' = done)]_vars
    /\ ((mon_pc = "poll" /\ Len(pr_queue) = total) ~> (mon_pc = "closed"))

C8_Witness ==
    /\ mon_pc = "closed"
    /\ total = 2
    /\ done = 2
    /\ pc = "await"

\* C9: for an empty hostname list aio_resolve starts no worker and no
\* monitor loop.
C9_EmptyStartsNothing ==
    (pc # "filter" /\ query_subdomains = <<>>) => (workers = 0 /\ mon_pc = "none")

\* C10: failed lookups never abort the batch: aiodns_query_a hands every
\* fault back as an outcome, no error leaves the batch, run_resolve ends
\* (the processes being scheduled), and at the end every record whose
\* hostname's lookups all failed has valid == 0.
C10_FailedRecordsInvalid ==
    pc = "done" =>
        \A j \in PendingIdx(data0) :
            (\A i \in DOMAIN results :
                results[i].hostname = data0[j].subdomain => Failed(results[i].answer))
            => data_list[j].valid = PyInt(0)

C11_StartFailureOnly ==
    /\ (pc = "failed") = (err # "none")
    /\ err # "none" =>
          /\ err = "PoolStart"
          /\ results = <<>>
          /\ results_dict = <<>>
          /\ data_list = data0
    /\ pc \in {"map", "await"} => workers = process_num

C11_Witness ==
    /\ pc = "failed"
    /\ err = "PoolStart"
    /\ PendingIdx(data0) # {}
    /\ data_list = data0
    /\ results_dict = <<>>

\* tasks whose outcome the pool holds
Collected == {i \in DOMAIN task : task[i].st = "returned"}

\* C12: for every submitted hostname, failed or not, pr_queue.put(1) runs
\* exactly once and before the hostname's outcome reaches the pool, so the
\* outcomes the pool holds never outnumber the marks in the queue.
C12_AdvanceBeforeOutcome ==
    /\ [](Cardinality(Collected) <= Len(pr_queue))
    /\ [](Len(pr_queue) = Cardinality({i \in DOMAIN task : task[i].st \in {"put", "returned"}}))
    /\ [][\A i \in (DOMAIN task) \cap (DOMAIN task') :
             /\ (task[i].st # "returned" /\ task'[i].st = "returned") => task[i].st = "put"
             /\ (task[i].st = "running" /\ task'[i].st = "put")
                   => Len(pr_queue') = Len(pr_queue) + 1]_vars

C12_Witness ==
    /\ Len(task) = 2
    /\ task[1].st = "put"
    /\ Failed(task[1].answer)
    /\ task[2].st = "returned"
    /\ Len(pr_queue) = 2
    /\ Cardinality(Collected) = 1

\* the last submitted task of hostname h (its answer is the one that stays
\* in the map)
LastTask(h) ==
    CHOOSE j \in DOMAIN task :
        /\ task[j].hostname = h
        /\ \A k \in DOMAIN task : task[k].hostname = h => k <= j

\* C13: the final record list does not depend on the schedule: it is a
\* function of the record list passed in and of the answers by position of
\* submission alone, whatever the interleaving of the workers and the order
\* in which the queries complete; every record stays at its position and
\* carries the outcome of its own hostname.
C13_FinalListDetermined ==
    pc = "done" =>
        /\ Len(data_list) = Len(data0)
        /\ \A i \in DOMAIN data0 :
              /\ data_list[i].subdomain = data0[i].subdomain
              /\ IF Populated(data0[i]) THEN data_list[i] = data0[i]
                 ELSE /\ \E j \in DOMAIN task : task[j].hostname = data0[i].subdomain
                      /\ LET outcome == ValueDict(task[LastTask(data0[i].subdomain)].answer)
                         IN  /\ data_list[i].ips = outcome.ips
                             /\ data_list[i].reason = outcome.reason
                             /\ data_list[i].valid = outcome.valid

C13_Witness ==
    /\ pc = "done"
    /\ process_num = 2
    /\ Len(data0) = 2
    /\ PendingIdx(data0) = {1, 2}
    /\ data0[1].subdomain # data0[2].subdomain
    /\ Populated(data_list[1])
    /\ data_list[2].valid = PyInt(0)

Resolving ==
    \/ workers > 0
    \/ \E i \in DOMAIN task : task[i].st \in {"queued", "running", "put"}

\* C15: the caller's record list is as it was passed in while a worker
\* runs or a query is in flight; only update_data writes it, after
\* aio_resolve has returned; the hostname list handed to the pool is not
\* changed once filter_subdomain has built it.
C15_RecordsWrittenByMergeOnly ==
    /\ [](Resolving => data_list = data0)
    /\ [][data_list' # data_list => (pc = "update" /\ ~Resolving)]_vars
    /\ [][query_subdomains' # query_subdomains => pc = "filter"]_vars
    /\ [][\A i \in (DOMAIN task) \cap (DOMAIN task') :
             task'[i].hostname = task[i].hostname]_vars

C15_Witness ==
    /\ pc = "done"
    /\ Len(task) = 2
    /\ ~Resolving
    /\ data_list[1] # data0[1]
    /\ data_list[2] # data0[2]

\* C16: in bulk_resolve every record update_data takes as pending has its
\* name as a key of the map convert_results built, also when several
\* pending records share a hostname, so results_dict.get never yields None
\* and update_data raises nothing.
C16_PendingNamesAreKeys ==
    /\ pc \in {"update", "done"} =>
          \A i \in DOMAIN data0 :
              UpdateCond(data0[i]) =>
                  /\ data0[i].subdomain \in DOMAIN results_dict
                  /\ DictGet(results_dict, data0[i].subdomain) # PyNone
    /\ err # "TypeError"

C16_Witness ==
    /\ pc = "done"
    /\ Len(data0) = 2
    /\ UpdateCond(data0[1])
    /\ UpdateCond(data0[2])
    /\ data0[1].subdomain = data0[2].subdomain
    /\ DOMAIN results_dict = {data0[1].subdomain}
    /\ results[1].answer.kind # results[2].answer.kind

\* aio_resolve has ended: it has returned its results or raised
AioResolveEnded == Returned \/ pc = "failed"

\* C17: once aio_resolve has ended, also by a failed start of the workers
\* after the monitor was started, the monitor loop has ended or ends with
\* its next read of the counter (the counter holds total marks).
C17_MonitorEnds ==
    AioResolveEnded => (mon_pc = "closed" \/ qsize(pr_queue) = total)

====
